---- MODULE Spec2Model ----
(***************************************************************************)
(* Model of the Winograd "Ultra" F(2x3) solver                             *)
(* (src/src/solver/conv_winoRxS_ultra_f2x3.cpp) and of the batch          *)
(* normalisation backward solver                                           *)
(* (src/src/solver/batchnorm/backward_spatial_single.cpp).                 *)
(*                                                                         *)
(* 64-bit quantities (uint64_t clip words, flag words, int64_t offsets as  *)
(* they are serialised) are sequences of 64 bits, and 32-bit control words *)
(* sequences of 32 bits, most significant bit first: bit position k (0 is  *)
(* the least significant bit) of a word q of width w is q[w - k].          *)
(***************************************************************************)
EXTENDS Integers, Sequences, FiniteSets, TLC

\* ------------------------------------------------------------------------
\* Program constants
\* ------------------------------------------------------------------------
MAX_CU_LIMIT == 512

group_size == 64

o_tile_W == 2

o_tile_H == 2

d_tile_W == 4

d_tile_H == 4

o_tile_step_W == o_tile_W

o_tile_step_H == o_tile_H

d_tile_step_W == o_tile_W

d_tile_step_H == o_tile_H

QWORD_BITS == 64

d_clip_tiles_QW == (group_size * d_tile_W) \div QWORD_BITS

o_clip_tiles_QW == (group_size * o_tile_W) \div QWORD_BITS

\* ------------------------------------------------------------------------
\* Bounds of the model
\* ------------------------------------------------------------------------
MaxN == 2

MaxOut == 3

MaxPad == 1

WideOW == 33

MaxLen == 9

MaxGroups == 4

MaxIntl == 3

\* descriptors of the largest blob the invoker is built over
MaxWorks == 33

\* invocations of one invoker
MaxInvocations == 2

\* calls of SetNextValue
MaxCalls == 514

\* group counts and compute-unit counts tried around the ends of the range
MaxCU == 4

\* channel counts of the batch normalisation problems
MaxBnC == 2

\* filter rows and columns
MaxFilter == 4

\* ------------------------------------------------------------------------
\* State
\* ------------------------------------------------------------------------
VARIABLES
    arg,          \* arguments of WU_control_make_3x3
    o_cur_w,      \* raster cursor: output column
    o_cur_h,      \* raster cursor: output row
    cur_n,        \* raster cursor: batch index
    n,            \* number of descriptors pushed by the raster walk
    w_info,       \* std::vector<work_info> of the raster walk
    lane_cursor,  \* history: per descriptor, the cursor each lane started from
    w_info_intl,  \* std::vector<work_info> after interleaving
    intl_i,       \* block index i of the interleave loop
    gpu_control,  \* std::vector<uint32_t>, the control blob
    pc,           \* position in WU_control_make_3x3
    \* the invoker returned by GetSolution
    workspace,      \* params.workSpace of the last invocation
    workspaceSize,  \* params.workSpaceSize of the last invocation
    outcome,        \* how the last invocation ended
    write_size,     \* size given to clEnqueueWriteBuffer by the last invocation
    events,         \* calls the last invocation made on the handle, in order
    n_invoked,      \* number of invocations so far
    \* PerformanceConfigConvBinWinogradUltraRxSf2x3 and its context
    n_groups,     \* field n_groups
    intl_factor,  \* field intl_factor
    max_cu,       \* GetMaxHardwareComputeUnits() of the context
    perf_op,      \* last member function called
    perf_ret,     \* its return value
    perf_calls,   \* number of SetNextValue calls so far
    \* BnBwdTrainingSpatialSingle
    bn_ctx,         \* ExecutionContext
    bn_problem,     \* miopen::batchnorm::ProblemDescription
    bn_called,      \* the member functions called so far
    bn_applicable,  \* result of IsApplicable
    bn_solution,    \* launch geometry chosen by GetSolution
    \* ConvBinWinogradUltraRxSf2x3: IsApplicable and GetSolution
    conv_ctx,       \* ConvolutionContext
    env,            \* the environment variables the solver reads
    config,         \* the caller's performance configuration
    disableConfigOverrideFromEnv,  \* argument of GetSolution
    conv_called,    \* the member functions called so far
    is_applicable,  \* result of IsApplicable
    solution        \* what GetSolution built

walkVars == <<arg, o_cur_w, o_cur_h, cur_n, n, w_info, lane_cursor,
              w_info_intl, intl_i, gpu_control, pc>>

invVars == <<workspace, workspaceSize, outcome, write_size, events, n_invoked>>

perfVars == <<n_groups, intl_factor, max_cu, perf_op, perf_ret, perf_calls>>

bnVars == <<bn_ctx, bn_problem, bn_called, bn_applicable, bn_solution>>

convVars == <<conv_ctx, env, config, disableConfigOverrideFromEnv, conv_called,
              is_applicable, solution>>

vars == <<walkVars, invVars, perfVars, bnVars, convVars>>

\* values of the variables of a component that is not part of a run
None == "none"

InvIdle ==
    /\ workspace = None
    /\ workspaceSize = 0
    /\ outcome = None
    /\ write_size = 0
    /\ events = <<>>
    /\ n_invoked = 0

PerfIdle ==
    /\ n_groups = 0
    /\ intl_factor = 0
    /\ max_cu = 0
    /\ perf_op = None
    /\ perf_ret = FALSE
    /\ perf_calls = 0

\* the launch geometry before GetSolution has run
NoSolution == [variant |-> 0 - 1]

BnIdle ==
    /\ bn_ctx = None
    /\ bn_problem = None
    /\ bn_called = {}
    /\ bn_applicable = FALSE
    /\ bn_solution = NoSolution

\* what GetSolution has built before it has run
NoConvSolution == [built |-> FALSE]

ConvIdle ==
    /\ conv_ctx = None
    /\ env = None
    /\ config = None
    /\ disableConfigOverrideFromEnv = FALSE
    /\ conv_called = {}
    /\ is_applicable = FALSE
    /\ solution = NoConvSolution

WalkIdle ==
    /\ arg = None
    /\ o_cur_w = 0
    /\ o_cur_h = 0
    /\ cur_n = 0
    /\ n = 0
    /\ w_info = <<>>
    /\ lane_cursor = <<>>
    /\ w_info_intl = <<>>
    /\ intl_i = 0
    /\ gpu_control = <<>>
    /\ pc = None

\* ------------------------------------------------------------------------
\* 64-bit words
\* ------------------------------------------------------------------------
Bit == {0, 1}

ZeroQword == [k \in 1..QWORD_BITS |-> 0]

\* bit position k of a 64-bit word
QBit(q, k) == q[QWORD_BITS - k]

\* q <<= 1; q |= b   (fixed width: the bit shifted out of the top is lost)
ShlOr(q, b) == Append(Tail(q), b)

BoolBit(c) == IF c THEN 1 ELSE 0

\* ------------------------------------------------------------------------
\* WU_control_make_3x3_w_info: the raster walk
\* ------------------------------------------------------------------------
\* mutant: the column test of the while condition left out
WhileCondNoCol == (o_cur_h < arg.o_H) /\ (cur_n < arg.N)

WhileCond == (o_cur_w < arg.o_W) /\ (o_cur_h < arg.o_H) /\ (cur_n < arg.N)

\* "dim <= v" with dim unsigned and v an int expression: v is converted to
\* unsigned, so a negative v compares as a huge value.
UnsignedLe(dim, v) == IF v < 0 THEN TRUE ELSE dim <= v

\* mutant: the right and bottom edges tested with < instead of <=
DClipTestStrict(d_cur_w, d_cur_h, c_n, i, j) ==
    \/ d_cur_w + i < 0
    \/ arg.W < d_cur_w + i
    \/ d_cur_h + j < 0
    \/ arg.H < d_cur_h + j
    \/ arg.N <= c_n

\* the clip test of input-tile element (i, j) for a lane whose input cursor is
\* (d_cur_w, d_cur_h) in batch c_n
DClipTest(d_cur_w, d_cur_h, c_n, i, j) ==
    \/ d_cur_w + i < 0
    \/ UnsignedLe(arg.W, d_cur_w + i)
    \/ d_cur_h + j < 0
    \/ UnsignedLe(arg.H, d_cur_h + j)
    \/ arg.N <= c_n

\* the clip test of output-tile element (i, j); o_cur_w + i is unsigned, so
\* the "< 0" tests of the source are constant false
OClipTest(oc_w, oc_h, c_n, i, j) ==
    \/ arg.o_W <= oc_w + i
    \/ arg.o_H <= oc_h + j
    \/ arg.N <= c_n

\* successive "<<= 1; |= test" on one clip word, for i = from .. tile_W - 1
RECURSIVE DClipWord(_, _, _, _, _, _)
DClipWord(q, d_cur_w, d_cur_h, c_n, j, i) ==
    IF i = d_tile_W THEN q
    ELSE DClipWord(ShlOr(q, BoolBit(DClipTest(d_cur_w, d_cur_h, c_n, i, j))),
                   d_cur_w, d_cur_h, c_n, j, i + 1)

RECURSIVE OClipWord(_, _, _, _, _, _)
OClipWord(q, oc_w, oc_h, c_n, j, i) ==
    IF i = o_tile_W THEN q
    ELSE OClipWord(ShlOr(q, BoolBit(OClipTest(oc_w, oc_h, c_n, i, j))),
                   oc_w, oc_h, c_n, j, i + 1)

\* mutant: the row wraps one tile late
RowWrapsLate(oc_w) == arg.o_W < oc_w

\* the row-wrap and plane-wrap tests of the cursor advance
RowWraps(oc_w) == arg.o_W <= oc_w

\* mutant: the plane wraps one tile row late
PlaneWrapsLate(oc_h) == arg.o_H < oc_h

PlaneWraps(oc_h) == arg.o_H <= oc_h

\* One pass of the body of "for(n_tile ...)" (the n_tile < group_size branch;
\* the else branch cannot run because the loop bound is group_size).
\* s holds the locals: the descriptor under construction and the cursors.
LaneStep(s, n_tile) ==
    LET dk   == (n_tile * d_tile_W) \div QWORD_BITS
        ok   == (n_tile * o_tile_W) \div QWORD_BITS
        dcl  == [s.w.d_clip EXCEPT ![dk] =
                    [j \in 0..(d_tile_H - 1) |->
                        DClipWord(s.w.d_clip[dk][j], s.d_cur_w, s.d_cur_h, s.cur_n, j, 0)]]
        ocl  == [s.w.o_clip EXCEPT ![ok] =
                    [j \in 0..(o_tile_H - 1) |->
                        OClipWord(s.w.o_clip[ok][j], s.o_cur_w, s.o_cur_h, s.cur_n, j, 0)]]
        w1   == s.o_cur_w + o_tile_step_W
        dw1  == s.d_cur_w + d_tile_step_W
        row  == RowWraps(w1)
        w2   == IF row THEN 0 ELSE w1
        dw2  == IF row THEN 0 - arg.pad_W ELSE dw1
        h1   == IF row THEN s.o_cur_h + o_tile_step_H ELSE s.o_cur_h
        dh1  == IF row THEN s.d_cur_h + d_tile_step_H ELSE s.d_cur_h
        pln  == PlaneWraps(h1)
        h2   == IF pln THEN 0 ELSE h1
        dh2  == IF pln THEN 0 - arg.pad_H ELSE dh1
        n2   == IF pln THEN s.cur_n + 1 ELSE s.cur_n
    IN  [w |-> [s.w EXCEPT !.d_clip = dcl,
                           !.o_clip = ocl,
                           !.step_1_pos = ShlOr(s.w.step_1_pos, BoolBit(row)),
                           !.step_2_pos = ShlOr(s.w.step_2_pos, BoolBit(pln))],
         o_cur_w |-> w2, o_cur_h |-> h2, cur_n |-> n2,
         d_cur_w |-> dw2, d_cur_h |-> dh2,
         lanes |-> Append(s.lanes, [col |-> s.o_cur_w, row |-> s.o_cur_h, batch |-> s.cur_n])]

\* for(n_tile = 0; n_tile < group_size; n_tile++), from the locals s
RECURSIVE ForLanes(_, _)
ForLanes(s, n_tile) ==
    IF n_tile < group_size
    THEN LET s1 == LaneStep(s, n_tile)
         IN  IF s1 = s1 THEN ForLanes(s1, n_tile + 1) ELSE s1   \* s1 is evaluated first
    ELSE s

\* "struct work_info cur_w_i = {}" followed by the two offset assignments
NewWorkInfo(d_cur_w, d_cur_h) ==
    [d_load_offset_addr  |-> d_cur_w * arg.d_stride_W + d_cur_h * arg.d_stride_H
                             + cur_n * arg.d_stride_N,
     o_store_offset_addr |-> o_cur_w * arg.o_stride_W + o_cur_h * arg.o_stride_H
                             + cur_n * arg.o_stride_N,
     step_1_pos |-> ZeroQword,
     step_2_pos |-> ZeroQword,
     d_clip |-> [k \in 0..(d_clip_tiles_QW - 1) |-> [j \in 0..(d_tile_H - 1) |-> ZeroQword]],
     o_clip |-> [k \in 0..(o_clip_tiles_QW - 1) |-> [j \in 0..(o_tile_H - 1) |-> ZeroQword]]]

\* one iteration of the while loop: build a descriptor over group_size lanes
\* and push it
WalkStep ==
    /\ pc = "walk"
    /\ WhileCond
    /\ LET d_cur_w == o_cur_w - arg.pad_W
           d_cur_h == o_cur_h - arg.pad_H
           s0 == [w |-> NewWorkInfo(d_cur_w, d_cur_h),
                  o_cur_w |-> o_cur_w, o_cur_h |-> o_cur_h, cur_n |-> cur_n,
                  d_cur_w |-> d_cur_w, d_cur_h |-> d_cur_h, lanes |-> <<>>]
           s1 == ForLanes(s0, 0)
       IN  /\ w_info' = Append(w_info, s1.w)
           /\ lane_cursor' = Append(lane_cursor, s1.lanes)
           /\ o_cur_w' = s1.o_cur_w
           /\ o_cur_h' = s1.o_cur_h
           /\ cur_n' = s1.cur_n
           /\ n' = n + 1
    /\ UNCHANGED <<arg, w_info_intl, intl_i, gpu_control, pc>>
    /\ UNCHANGED <<invVars, perfVars, bnVars, convVars>>

\* the while condition is false: WU_control_make_3x3_w_info returns
WalkExit ==
    /\ pc = "walk"
    /\ ~WhileCond
    /\ pc' = "interleave"
    /\ intl_i' = 0
    /\ UNCHANGED <<arg, o_cur_w, o_cur_h, cur_n, n, w_info, lane_cursor,
                   w_info_intl, gpu_control>>
    /\ UNCHANGED <<invVars, perfVars, bnVars, convVars>>

\* ------------------------------------------------------------------------
\* WU_control_make_3x3: the interleave loops
\* ------------------------------------------------------------------------
\* mutant: the inner loop strides by n_groups instead of intl_factor
RECURSIVE IntlInnerStride(_, _, _, _, _)
IntlInnerStride(size, groups, intl, i, j) ==
    IF j < intl * groups /\ i + j < size
    THEN <<i + j>> \o IntlInnerStride(size, groups, intl, i, j + groups)
    ELSE <<>>

\* for(j = k; j < intl_factor * n_groups && i + j < size; j += intl_factor)
RECURSIVE IntlInner(_, _, _, _, _)
IntlInner(size, groups, intl, i, j) ==
    IF j < intl * groups /\ i + j < size
    THEN <<i + j>> \o IntlInner(size, groups, intl, i, j + intl)
    ELSE <<>>

\* for(k = 0; k < intl_factor; k++)
RECURSIVE IntlMiddle(_, _, _, _, _)
IntlMiddle(size, groups, intl, i, k) ==
    IF k < intl
    THEN IntlInner(size, groups, intl, i, k) \o IntlMiddle(size, groups, intl, i, k + 1)
    ELSE <<>>

\* mutant: the descriptors of the block pushed in raster order
InterleaveBlockRaster(v, groups, intl, i) ==
    [p \in 1..(IF i + intl * groups < Len(v) THEN intl * groups ELSE Len(v) - i) |-> v[i + p]]

\* what one pass of the body of for(i ...) pushes to w_info_intl: the
\* descriptors of the block that starts at index i
InterleaveBlock(v, groups, intl, i) ==
    LET ord == IntlMiddle(Len(v), groups, intl, i, 0)
    IN  [p \in 1..Len(ord) |-> v[ord[p] + 1]]

\* one iteration of for(int i = 0; i < w_info.size(); i += intl_factor * n_groups)
InterleaveStep ==
    /\ pc = "interleave"
    /\ intl_i < Len(w_info)
    /\ w_info_intl' = w_info_intl
                          \o InterleaveBlock(w_info, arg.n_groups, arg.intl_factor, intl_i)
    /\ intl_i' = intl_i + arg.intl_factor * arg.n_groups
    /\ UNCHANGED <<arg, o_cur_w, o_cur_h, cur_n, n, w_info, lane_cursor, gpu_control, pc>>
    /\ UNCHANGED <<invVars, perfVars, bnVars, convVars>>

\* the loop condition is false: the interleaved sequence goes to the encoder
InterleaveExit ==
    /\ pc = "interleave"
    /\ ~(intl_i < Len(w_info))
    /\ pc' = "encode"
    /\ UNCHANGED <<arg, o_cur_w, o_cur_h, cur_n, n, w_info, lane_cursor, w_info_intl,
                   intl_i, gpu_control>>
    /\ UNCHANGED <<invVars, perfVars, bnVars, convVars>>

\* ------------------------------------------------------------------------
\* WU_control_w_info_bit_encode
\* ------------------------------------------------------------------------
CONTROL_LANES == 32

BLOCK_WORDS == 64

INDEX_LANE == 24

ZeroWord == [b \in 1..CONTROL_LANES |-> 0]

\* bit k of a non-negative value below 2^31
NatBit(v, k) == IF k > 30 THEN 0 ELSE (v \div (2 ^ k)) % 2

\* the uint64_t a value converts to (two's complement for a negative int64_t)
ToQword(v) ==
    [p \in 1..QWORD_BITS |->
        IF v >= 0 THEN NatBit(v, QWORD_BITS - p) ELSE 1 - NatBit(0 - v - 1, QWORD_BITS - p)]

\* mutant: the index lane counts the descriptors from one
LaneQwordFromOne(w_i, idx, j) ==
    IF j = 0 THEN ToQword(w_i.d_load_offset_addr)
    ELSE IF j = 1 THEN ToQword(w_i.o_store_offset_addr)
    ELSE IF j = 2 THEN w_i.step_1_pos
    ELSE IF j = 3 THEN w_i.step_2_pos
    ELSE IF j >= 4 /\ j < 4 + d_clip_tiles_QW * d_tile_H
         THEN w_i.d_clip[(j - 4) \div d_tile_H][(j - 4) % d_tile_H]
    ELSE IF j >= 4 + d_clip_tiles_QW * d_tile_H
            /\ j < 4 + d_clip_tiles_QW * d_tile_H + o_clip_tiles_QW * o_tile_H
         THEN w_i.o_clip[(j - 4 - d_clip_tiles_QW * d_tile_H) \div o_tile_H]
                        [(j - 4 - d_clip_tiles_QW * d_tile_H) % o_tile_H]
    ELSE IF j = INDEX_LANE THEN ToQword(idx + 1)
    ELSE ZeroQword

\* the if / else-if chain selecting qword for lane j of descriptor number idx
LaneQword(w_i, idx, j) ==
    IF j = 0 THEN ToQword(w_i.d_load_offset_addr)
    ELSE IF j = 1 THEN ToQword(w_i.o_store_offset_addr)
    ELSE IF j = 2 THEN w_i.step_1_pos
    ELSE IF j = 3 THEN w_i.step_2_pos
    ELSE IF j >= 4 /\ j < 4 + d_clip_tiles_QW * d_tile_H
         THEN w_i.d_clip[(j - 4) \div d_tile_H][(j - 4) % d_tile_H]
    ELSE IF j >= 4 + d_clip_tiles_QW * d_tile_H
            /\ j < 4 + d_clip_tiles_QW * d_tile_H + o_clip_tiles_QW * o_tile_H
         THEN w_i.o_clip[(j - 4 - d_clip_tiles_QW * d_tile_H) \div o_tile_H]
                        [(j - 4 - d_clip_tiles_QW * d_tile_H) % o_tile_H]
    ELSE IF j = INDEX_LANE THEN ToQword(idx)
    ELSE ZeroQword

\* mutant: the plane-advance flag word written in natural order
LaneReversedButStep2(j) ==
    IF j = 3 THEN FALSE
    ELSE j >= 2 /\ j < 4 + d_clip_tiles_QW * d_tile_H + o_clip_tiles_QW * o_tile_H

\* the bit_reverse flag the same chain selects
LaneReversed(j) ==
    IF j = 0 THEN FALSE
    ELSE IF j = 1 THEN FALSE
    ELSE IF j = 2 THEN TRUE
    ELSE IF j = 3 THEN TRUE
    ELSE IF j >= 4 /\ j < 4 + d_clip_tiles_QW * d_tile_H THEN TRUE
    ELSE IF j >= 4 + d_clip_tiles_QW * d_tile_H
            /\ j < 4 + d_clip_tiles_QW * d_tile_H + o_clip_tiles_QW * o_tile_H THEN TRUE
    ELSE FALSE

\* the word that receives bit k of the qword: int i = bit_reverse ? 63 - k : k
ScatterWord(reversed, k) == IF reversed THEN (BLOCK_WORDS - 1) - k ELSE k

\* for(k = 0; k < 64; k++) { block[i] <<= 1; block[i] |= qword & 1; qword >>= 1; }
\* Every word i is shifted once and receives one bit: bit k of the qword with
\* ScatterWord(k) = i, which is k = ScatterWord(i) (the map is its own
\* inverse).  block is the sequence of the 64 words, block[i + 1] for word i.
ScatterLane(block, qword, reversed) ==
    [i \in 1..BLOCK_WORDS |-> ShlOr(block[i], QBit(qword, ScatterWord(reversed, i - 1)))]

\* for(j = 0; j < 32; j++)
RECURSIVE EncodeLanes(_, _, _, _)
EncodeLanes(block, w_i, idx, j) ==
    IF j < CONTROL_LANES
    THEN EncodeLanes(ScatterLane(block, LaneQword(w_i, idx, j), LaneReversed(j)),
                     w_i, idx, j + 1)
    ELSE block

\* uint32_t block[64] = {0}, filled from descriptor number idx
EncodeBlock(w_i, idx) ==
    EncodeLanes([i \in 1..BLOCK_WORDS |-> ZeroWord], w_i, idx, 0)

\* for(i = 0; i < w_info.size(); i++): the 64 words of each block are pushed
RECURSIVE EncodeFrom(_, _)
EncodeFrom(v, i) ==
    IF i < Len(v) THEN EncodeBlock(v[i + 1], i) \o EncodeFrom(v, i + 1) ELSE <<>>

BitEncode(v) == EncodeFrom(v, 0)

EncodeStep ==
    /\ pc = "encode"
    /\ gpu_control' = BitEncode(w_info_intl)
    /\ pc' = "done"
    /\ UNCHANGED <<arg, o_cur_w, o_cur_h, cur_n, n, w_info, lane_cursor, w_info_intl,
                   intl_i>>
    /\ UNCHANGED <<invVars, perfVars, bnVars, convVars>>

\* ------------------------------------------------------------------------
\* Inputs of WU_control_make_3x3
\* ------------------------------------------------------------------------
TypeSize == 2

\* input extent that a 3x3 filter with unit stride maps to `out` outputs
InDim(out, pad) == IF out + 2 - 2 * pad < 0 THEN 0 ELSE out + 2 - 2 * pad

Geom(bn, c, h, w, oh, ow, ph, pw) ==
    [N |-> bn, C |-> c, K |-> c, H |-> h, W |-> w, o_H |-> oh, o_W |-> ow,
     pad_H |-> ph, pad_W |-> pw]

\* small geometries: every batch count and output extent up to the bounds
\* (0 included), unequal left pads, and the input extents either matching the
\* output or zero in one dimension
SmallGeoms ==
    { Geom(bn, 1,
           IF z = 1 THEN 0 ELSE InDim(oh, (pw + 1) % (MaxPad + 1)),
           IF z = 2 THEN 0 ELSE InDim(ow, pw),
           oh, ow, (pw + 1) % (MaxPad + 1), pw) :
        bn \in 0..MaxN, oh \in 0..MaxOut, ow \in 0..MaxOut, pw \in 0..MaxPad, z \in 0..2 }

\* geometries of more than group_size tiles: the 32x32 scenario (4 full
\* descriptors) and a wide, unpadded one whose last descriptor is partly filled
BigGeoms ==
    { Geom(1, 4, 34, 34, 32, 32, 1, 1),
      Geom(MaxN, 1, InDim(MaxOut, 0), InDim(WideOW, 0), MaxOut, WideOW, 0, 0) }

Geoms == SmallGeoms \cup BigGeoms

\* (n_groups, intl_factor) pairs the compiler is run with
WalkConfigs == { <<1, 1>>, <<2, 2>> }

\* the call of WU_control_make_3x3 in GetSolution: byte pitches of the NCHW
\* buffers
CallArgs(g, groups, intl) ==
    [N |-> g.N, H |-> g.H, W |-> g.W, o_H |-> g.o_H, o_W |-> g.o_W,
     pad_H |-> g.pad_H, pad_W |-> g.pad_W,
     d_stride_N |-> g.C * g.H * g.W * TypeSize,
     d_stride_H |-> g.W * TypeSize,
     d_stride_W |-> TypeSize,
     o_stride_N |-> g.K * g.o_H * g.o_W * TypeSize,
     o_stride_H |-> g.o_W * TypeSize,
     o_stride_W |-> TypeSize,
     n_groups |-> groups,
     intl_factor |-> intl]

WalkInit ==
    /\ \E g \in Geoms, cfg \in WalkConfigs : arg = CallArgs(g, cfg[1], cfg[2])
    /\ o_cur_w = 0
    /\ o_cur_h = 0
    /\ cur_n = 0
    /\ n = 0
    /\ w_info = <<>>
    /\ lane_cursor = <<>>
    /\ w_info_intl = <<>>
    /\ intl_i = 0
    /\ gpu_control = <<>>
    /\ pc = "walk"
    /\ InvIdle
    /\ PerfIdle
    /\ BnIdle
    /\ ConvIdle

Init == WalkInit

Next == WalkStep \/ WalkExit \/ InterleaveStep \/ InterleaveExit \/ EncodeStep

Spec == Init /\ [][Next]_vars

\* ------------------------------------------------------------------------
\* The interleave step on its own: descriptor sequences of every length up to
\* MaxLen, each descriptor standing for its raster index
\* ------------------------------------------------------------------------
IntlInit ==
    /\ \E len \in 0..MaxLen, groups \in 1..MaxGroups, intl \in 1..MaxIntl :
          /\ arg = [n_groups |-> groups, intl_factor |-> intl]
          /\ w_info = [i \in 1..len |-> i - 1]
          /\ n = len
    /\ o_cur_w = 0
    /\ o_cur_h = 0
    /\ cur_n = 0
    /\ lane_cursor = <<>>
    /\ w_info_intl = <<>>
    /\ intl_i = 0
    /\ gpu_control = <<>>
    /\ pc = "interleave"
    /\ InvIdle
    /\ PerfIdle
    /\ BnIdle
    /\ ConvIdle

IntlNext == InterleaveStep \/ InterleaveExit

SpecIntl == IntlInit /\ [][IntlNext]_vars

\* ------------------------------------------------------------------------
\* GetSolution: the invoker
\* ------------------------------------------------------------------------
\* GetWorkspaceSize
GetWorkspaceSize == 8 * 1024

\* sizeof(uint32_t)
WORD_BYTES == 4

\* dataSize of the invoker: the byte size of the captured blob
DataSize == Len(gpu_control) * WORD_BYTES

\* mutant: the workspace test left out
NotEnoughWorkspaceNever(ws, ws_size, workspace_req) == FALSE

\* the workspace test of the invoker
NotEnoughWorkspace(ws, ws_size, workspace_req) ==
    (ws = "nullptr" /\ workspace_req > 0) \/ ws_size < workspace_req

CL_SUCCESS == "CL_SUCCESS"

\* what clEnqueueWriteBuffer may return
ClStatuses == {CL_SUCCESS, "CL_ERROR"}

\* workspace sizes a caller may pass: around the advertised size and around
\* the byte size of the blob
WorkspaceSizes ==
    {0, GetWorkspaceSize - 1, GetWorkspaceSize, GetWorkspaceSize + 1,
     DataSize, DataSize + 1, DataSize + GetWorkspaceSize}
    \cup (IF DataSize > 0 THEN {DataSize - 1} ELSE {})

\* one invocation of the closure returned by the invoker factory (the build
\* with ULTRA_USE_WORKSPACE: the kernel call names the workspace)
Invoke ==
    /\ pc = "done"
    /\ n_invoked < MaxInvocations
    /\ \E ws \in {"nullptr", "buffer"}, ws_size \in WorkspaceSizes, status \in ClStatuses :
          LET workspace_req == GetWorkspaceSize
          IN  /\ workspace' = ws
              /\ workspaceSize' = ws_size
              /\ IF NotEnoughWorkspace(ws, ws_size, workspace_req)
                 THEN /\ outcome' = "sizing_error"
                      /\ write_size' = 0
                      /\ events' = <<"Run">>
                 ELSE IF status # CL_SUCCESS
                 THEN /\ outcome' = "copy_error"
                      /\ write_size' = DataSize
                      /\ events' = <<"Run", "Finish", "WriteBuffer">>
                 ELSE /\ outcome' = "launched"
                      /\ write_size' = DataSize
                      /\ events' = <<"Run", "Finish", "WriteBuffer", "Kernel">>
    /\ n_invoked' = n_invoked + 1
    /\ UNCHANGED <<walkVars, perfVars, bnVars, convVars>>

\* problems the invoker is built for: one batch, one row of tiles, and blobs
\* of one descriptor, of GetWorkspaceSize bytes, and of MaxWorks descriptors
InvokeGeoms ==
    { Geom(1, 1, InDim(o_tile_H, 1), InDim(ow, 1), o_tile_H, ow, 1, 1) :
        ow \in { o_tile_W * group_size,
                 o_tile_W * group_size * (GetWorkspaceSize \div (BLOCK_WORDS * WORD_BYTES)),
                 o_tile_W * group_size * MaxWorks } }

InvokeInit ==
    /\ \E g \in InvokeGeoms : arg = CallArgs(g, 1, 1)
    /\ o_cur_w = 0
    /\ o_cur_h = 0
    /\ cur_n = 0
    /\ n = 0
    /\ w_info = <<>>
    /\ lane_cursor = <<>>
    /\ w_info_intl = <<>>
    /\ intl_i = 0
    /\ gpu_control = <<>>
    /\ pc = "walk"
    /\ InvIdle
    /\ PerfIdle
    /\ BnIdle
    /\ ConvIdle

InvokeNext ==
    WalkStep \/ WalkExit \/ InterleaveStep \/ InterleaveExit \/ EncodeStep \/ Invoke

SpecInvoke == InvokeInit /\ [][InvokeNext]_vars

\* ------------------------------------------------------------------------
\* PerformanceConfigConvBinWinogradUltraRxSf2x3
\* ------------------------------------------------------------------------
\* PerfFieldRules: seq::Span<int, 1, MAX_CU_LIMIT> over n_groups
SpanLow == 1

SpanHigh == MAX_CU_LIMIT

\* seq::Span::Next: the next value of the range; after the last value the
\* range starts over and the call reports that it wrapped
SpanNext(v) ==
    IF v = SpanHigh THEN [value |-> SpanLow, wrapped |-> TRUE]
                    ELSE [value |-> v + 1, wrapped |-> FALSE]

\* seq::Span::IsIn
SpanIsIn(v) == SpanLow <= v /\ v <= SpanHigh

\* the constructor
PerformanceConfig(n_groups_, intl_factor_) ==
    [n_groups |-> n_groups_, intl_factor |-> intl_factor_]

\* mutant: the report of the rule set returned as it is
SetNextValueRetSame(wrapped) == wrapped

\* SetNextValue returns the negation of what the rule set reports
SetNextValueRet(wrapped) == ~wrapped

SetNextValue ==
    /\ perf_calls < MaxCalls
    /\ LET r == SpanNext(n_groups)
       IN  /\ n_groups' = r.value
           /\ perf_ret' = SetNextValueRet(r.wrapped)
    /\ perf_op' = "SetNextValue"
    /\ perf_calls' = perf_calls + 1
    /\ UNCHANGED <<intl_factor, max_cu>>
    /\ UNCHANGED <<walkVars, invVars, bnVars, convVars>>

IsValidValue(g) == SpanIsIn(g)

\* mutant: a group count equal to the compute-unit count refused
TooFewUnitsOrEqual(cu, g) == cu <= g

\* the first test of IsValid; for a negative n_groups the test and the range
\* test that follows it refuse the value whichever way the operands convert
TooFewUnits(cu, g) == cu < g

IsValid(cu, g) ==
    IF TooFewUnits(cu, g) THEN FALSE
    ELSE IF ~IsValidValue(g) THEN FALSE
    ELSE TRUE

IsValidPerformanceConfig(cu, g) == IsValidValue(g) /\ IsValid(cu, g)

IsValidCall ==
    /\ perf_op' = "IsValid"
    /\ perf_ret' = IsValid(max_cu, n_groups)
    /\ UNCHANGED <<n_groups, intl_factor, max_cu, perf_calls>>
    /\ UNCHANGED <<walkVars, invVars, bnVars, convVars>>

IsValidPerformanceConfigCall ==
    /\ perf_op' = "IsValidPerformanceConfig"
    /\ perf_ret' = IsValidPerformanceConfig(max_cu, n_groups)
    /\ UNCHANGED <<n_groups, intl_factor, max_cu, perf_calls>>
    /\ UNCHANGED <<walkVars, invVars, bnVars, convVars>>

\* the enumeration of SetNextValue, from a configuration constructed with
\* n_groups = 1
PerfInit ==
    /\ \E f \in 1..MaxIntl :
          LET c == PerformanceConfig(SpanLow, f)
          IN  n_groups = c.n_groups /\ intl_factor = c.intl_factor
    /\ max_cu \in {1, MAX_CU_LIMIT}
    /\ perf_op = "ctor"
    /\ perf_ret = FALSE
    /\ perf_calls = 0
    /\ WalkIdle
    /\ InvIdle
    /\ BnIdle
    /\ ConvIdle

PerfNext == SetNextValue

SpecPerf == PerfInit /\ [][PerfNext]_vars

\* group counts and compute-unit counts around both ends of the range
GroupsTried ==
    ((0 - 1)..MaxCU) \cup ((MAX_CU_LIMIT - 1)..(MAX_CU_LIMIT + 1))

UnitsTried ==
    (0..MaxCU) \cup ((MAX_CU_LIMIT - 1)..(MAX_CU_LIMIT + 1)) \cup {2 * MAX_CU_LIMIT}

\* the validity checks, on configurations constructed with any group count
ValidInit ==
    /\ \E g \in GroupsTried :
          LET c == PerformanceConfig(g, 1)
          IN  n_groups = c.n_groups /\ intl_factor = c.intl_factor
    /\ max_cu \in UnitsTried
    /\ perf_op = "ctor"
    /\ perf_ret = FALSE
    /\ perf_calls = 0
    /\ WalkIdle
    /\ InvIdle
    /\ BnIdle
    /\ ConvIdle

ValidNext == IsValidCall \/ IsValidPerformanceConfigCall

SpecValid == ValidInit /\ [][ValidNext]_vars

\* ------------------------------------------------------------------------
\* BnBwdTrainingSpatialSingle
\* ------------------------------------------------------------------------
\* An unsigned int is a pair of 16-bit halves [hi, lo]; int operands are
\* non-negative and below 2^31.
HALF == 65536

BYTE == 256

\* conversion of a non-negative int to unsigned int
ToUnsigned(v) == [hi |-> v \div HALF, lo |-> v % HALF]

\* unsigned int multiplication: the product modulo 2^32
UnsignedMul(a, b) ==
    LET a1 == a \div HALF
        a0 == a % HALF
        b1 == b \div HALF
        b0 == b % HALF
        \* a0 * b0 = q * BYTE + p, by the two bytes of a0
        p == (a0 % BYTE) * b0
        q == (a0 \div BYTE) * b0
        lo_sum == (p % HALF) + (q % BYTE) * BYTE
        carry == (lo_sum \div HALF) + (p \div HALF) + (q \div BYTE)
    IN  [hi |-> (carry + ((a1 * b0) % HALF) + ((a0 * b1) % HALF)) % HALF,
         lo |-> lo_sum % HALF]

\* x < lim for an unsigned int x and a constant lim
UnsignedLess(x, lim) ==
    \/ x.hi < lim \div HALF
    \/ (x.hi = lim \div HALF /\ x.lo < lim % HALF)

\* in_cstride = h * w
InCStride(p) == p.h * p.w

\* in_nhw = n * in_cstride
InNhw(p) == UnsignedMul(p.n, InCStride(p))

\* mutant: the mode left untested
BnIsApplicableAnyMode(ctx, p) ==
    IF p.direction # "Backward" THEN FALSE
    ELSE LET in_cstride == InCStride(p)
             in_nhw == InNhw(p)
         IN  \/ (in_cstride > 1024 /\ UnsignedLess(in_nhw, 32 * 1024 * 1024))
             \/ (in_cstride > 512 /\ UnsignedLess(in_nhw, 32 * 1024 * 1024))
             \/ in_cstride <= 512

\* mutant: the tensor lengths left untested
BnIsApplicableAnySize(ctx, p) ==
    ~(p.direction # "Backward" \/ p.mode # "miopenBNSpatial")

\* IsApplicable
BnIsApplicable(ctx, p) ==
    IF p.direction # "Backward" \/ p.mode # "miopenBNSpatial" THEN FALSE
    ELSE LET in_cstride == InCStride(p)
             in_nhw == InNhw(p)
         IN  \/ (in_cstride > 1024 /\ UnsignedLess(in_nhw, 32 * 1024 * 1024))
             \/ (in_cstride > 512 /\ UnsignedLess(in_nhw, 32 * 1024 * 1024))
             \/ in_cstride <= 512

\* the precision flags of GetSolution
Bfp16parm(p) == p.xtype = "miopenHalf" /\ p.sbtype = "miopenHalf"

Bfpmixparm(p) == p.xtype = "miopenHalf" /\ p.sbtype = "miopenFloat"

Bfp32parm(p) == ~Bfp16parm(p) /\ ~Bfpmixparm(p)

Min(a, b) == IF a < b THEN a ELSE b

\* std::min(64 * ((in_cstride + 63) / 64), 1024)
RoundedBlock(in_cstride) == Min(64 * ((in_cstride + 63) \div 64), 1024)

\* the launch geometry with the x dimension in use
XGeometry(v, xlocalsize, c) ==
    [variant |-> v, xlocalsize |-> xlocalsize, ylocalsize |-> 1,
     xgridsize |-> c * xlocalsize, ygridsize |-> 1,
     ldsgcn |-> xlocalsize \div 64, ldsnogcn |-> xlocalsize]

\* the if / else-if chain of GetSolution
VariantTable(p) ==
    LET in_cstride == InCStride(p)
        in_nhw == InNhw(p)
    IN  IF UnsignedLess(in_nhw, 32 * 1024 * 1024) /\ in_cstride > 1024
        THEN XGeometry(1, 1024, p.c)
        ELSE IF UnsignedLess(in_nhw, 32 * 1024 * 1024) /\ in_cstride > 512
        THEN XGeometry(IF p.n >= 32 THEN 1 ELSE 3, RoundedBlock(in_cstride), p.c)
        ELSE IF in_cstride <= 512
        THEN IF p.n > 64 /\ in_cstride > 160
             THEN XGeometry(3, RoundedBlock(in_cstride), p.c)
             ELSE IF Bfp32parm(p) THEN XGeometry(0, 1024, p.c)
                                  ELSE XGeometry(0, 256, p.c)
        ELSE LET ylocalsize == 1024
                 segment == (in_cstride + ylocalsize - 1) \div ylocalsize
             IN  [variant |-> 2, xlocalsize |-> 1, ylocalsize |-> ylocalsize,
                  xgridsize |-> p.c, ygridsize |-> segment * ylocalsize,
                  ldsgcn |-> ylocalsize \div 64, ldsnogcn |-> ylocalsize]

\* the branch of the if / else-if chain that runs, counted from 1
TableBranch(p) ==
    LET in_cstride == InCStride(p)
        in_nhw == InNhw(p)
    IN  IF UnsignedLess(in_nhw, 32 * 1024 * 1024) /\ in_cstride > 1024 THEN 1
        ELSE IF UnsignedLess(in_nhw, 32 * 1024 * 1024) /\ in_cstride > 512 THEN 2
        ELSE IF in_cstride <= 512 THEN 3
        ELSE 4

\* the override that follows the chain: it leaves the y dimension as it was
MixOverride(p, t) ==
    IF InCStride(p) < 200 /\ InCStride(p) > 60 /\ Bfpmixparm(p)
    THEN [t EXCEPT !.variant = 1, !.xlocalsize = 1024, !.xgridsize = p.c * 1024,
                   !.ldsgcn = 1024 \div 64, !.ldsnogcn = 1024]
    ELSE t

BnGetSolution(p) == MixOverride(p, VariantTable(p))

BnIsApplicableCall ==
    /\ bn_applicable' = BnIsApplicable(bn_ctx, bn_problem)
    /\ bn_called' = bn_called \cup {"IsApplicable"}
    /\ UNCHANGED <<bn_ctx, bn_problem, bn_solution>>
    /\ UNCHANGED <<walkVars, invVars, perfVars, convVars>>

BnGetSolutionCall ==
    /\ bn_solution' = BnGetSolution(bn_problem)
    /\ bn_called' = bn_called \cup {"GetSolution"}
    /\ UNCHANGED <<bn_ctx, bn_problem, bn_applicable>>
    /\ UNCHANGED <<walkVars, invVars, perfVars, convVars>>

\* tensor lengths around the thresholds of the table
BnShapes ==
    { <<1, hw>> : hw \in {1, 60, 61, 100, 160, 161, 199, 200, 512, 513,
                          1000, 1024, 1025, 2000} }
    \cup { <<1024, 1024>> }

BnBatches == {1, 16, 31, 32, 64, 65, 100, 4096, 32768, 65536}

BnTypes ==
    { <<"miopenFloat", "miopenFloat">>, <<"miopenHalf", "miopenHalf">>,
      <<"miopenHalf", "miopenFloat">> }

BnInit ==
    /\ bn_ctx \in {"gfx906", "gfx1030"}
    /\ \E d \in {"ForwardTraining", "ForwardInference", "Backward"},
          m \in {"miopenBNSpatial", "miopenBNPerActivation"},
          bn \in BnBatches, c \in 1..MaxBnC, hw \in BnShapes, t \in BnTypes :
          bn_problem = [direction |-> d, mode |-> m, n |-> bn, c |-> c,
                        h |-> hw[1], w |-> hw[2], xtype |-> t[1], sbtype |-> t[2]]
    /\ bn_called = {}
    /\ bn_applicable = FALSE
    /\ bn_solution = NoSolution
    /\ WalkIdle
    /\ InvIdle
    /\ PerfIdle
    /\ ConvIdle

BnNext == BnIsApplicableCall \/ BnGetSolutionCall

SpecBn == BnInit /\ [][BnNext]_vars

\* ------------------------------------------------------------------------
\* ConvBinWinogradUltraRxSf2x3::IsApplicable
\* ------------------------------------------------------------------------
\* StartsWith(name, prefix) on strings as sequences of characters
StartsWith(name, prefix) ==
    Len(name) >= Len(prefix) /\ SubSeq(name, 1, Len(prefix)) = prefix

Gfx10 == <<"g", "f", "x", "1", "0">>

\* std::pow(2, 16)
Pow2_16 == 65536

\* mutant: the filter columns left untested
FilterFitsRowsOnly(R, S) == R <= 3

\* the filter limits of the shader
FilterFits(R, S) == S <= 3 /\ R <= 3

IsShaderContraintsMet(R, S, C, K, H, W, OH, OW, N, params) ==
    IF params.direction = "BackwardData"
       /\ (~(0 <= params.backward_pad_w /\ params.backward_pad_w < Pow2_16)
           \/ ~(0 <= params.backward_pad_h /\ params.backward_pad_h < Pow2_16))
    THEN FALSE
    ELSE IF ~params.layout_default
    THEN FALSE
    ELSE /\ N = 1
         /\ C <= 16
         /\ K <= 16
         /\ H < Pow2_16
         /\ W < Pow2_16
         /\ OH < Pow2_16
         /\ OW < Pow2_16
         /\ params.pad_w < Pow2_16
         /\ params.pad_h < Pow2_16
         /\ FilterFits(R, S)
         /\ params.max_cu < Pow2_16

\* mutant: the vertical stride left untested
UnitStrideW(params) ==
    /\ params.kernel_stride_w = 1
    /\ params.kernel_dilation_w = 1
    /\ params.kernel_dilation_h = 1
    /\ params.bias = 0
    /\ params.group_counts = 1
    /\ params.in_layout = "NCHW"

\* the stride, dilation, bias, group and layout test of IsApplicableBase
UnitStrideNoBiasOneGroup(params) ==
    /\ params.kernel_stride_w = 1
    /\ params.kernel_stride_w = params.kernel_stride_h
    /\ params.kernel_dilation_w = 1
    /\ params.kernel_dilation_h = 1
    /\ params.bias = 0
    /\ params.group_counts = 1
    /\ params.in_layout = "NCHW"

IsApplicableBase(params) ==
    IF ~params.is2d THEN FALSE
    ELSE IF ~params.fp16 THEN FALSE
    ELSE IF ~params.use_asm_kernels THEN FALSE
    ELSE IF ~params.rmv_v3 THEN FALSE
    ELSE IF params.direction = "BackwardWrW" THEN FALSE
    ELSE IF ~StartsWith(params.device_name, Gfx10) THEN FALSE
    ELSE IF ~UnitStrideNoBiasOneGroup(params) THEN FALSE
    ELSE LET n_inputs_per_group == params.n_inputs \div params.group_counts
             n_outputs_per_group == params.n_outputs \div params.group_counts
         IN  IsShaderContraintsMet(params.kernel_size_h, params.kernel_size_w,
                                   n_inputs_per_group, n_outputs_per_group,
                                   params.in_height, params.in_width,
                                   params.out_height, params.out_width,
                                   params.batch_sz, params)

\* IsApplicable: the disable switch, then IsApplicableBase
IsApplicable(params, e) ==
    IF e.disabled THEN FALSE ELSE IsApplicableBase(params)

IsApplicableCall ==
    /\ is_applicable' = IsApplicable(conv_ctx, env)
    /\ conv_called' = conv_called \cup {"IsApplicable"}
    /\ UNCHANGED <<conv_ctx, env, config, disableConfigOverrideFromEnv, solution>>
    /\ UNCHANGED <<walkVars, invVars, perfVars, bnVars>>

\* a problem the solver accepts: the 32x32 scenario on a gfx1030
GoodCtx ==
    [is2d |-> TRUE, fp16 |-> TRUE, use_asm_kernels |-> TRUE, rmv_v3 |-> TRUE,
     direction |-> "Forward",
     device_name |-> <<"g", "f", "x", "1", "0", "3", "0">>,
     kernel_stride_w |-> 1, kernel_stride_h |-> 1,
     kernel_dilation_w |-> 1, kernel_dilation_h |-> 1,
     bias |-> 0, group_counts |-> 1, in_layout |-> "NCHW", layout_default |-> TRUE,
     kernel_size_h |-> 3, kernel_size_w |-> 3,
     n_inputs |-> 16, n_outputs |-> 16,
     in_height |-> 34, in_width |-> 34, out_height |-> 32, out_width |-> 32,
     batch_sz |-> 1, pad_h |-> 1, pad_w |-> 1,
     backward_pad_h |-> 1, backward_pad_w |-> 1,
     max_cu |-> 40]

\* one field of the context set to another value
Deviate(c, d) == [c EXCEPT ![d[1]] = d[2]]

\* the tests before the stride test, each failed in turn
GateDeviations ==
    << <<"is2d", TRUE>>, <<"is2d", FALSE>>, <<"fp16", FALSE>>,
       <<"use_asm_kernels", FALSE>>, <<"rmv_v3", FALSE>>,
       <<"direction", "BackwardWrW">>, <<"direction", "BackwardData">>,
       <<"device_name", <<"g", "f", "x", "9", "0", "6">>>>,
       <<"in_layout", "NHWC">>, <<"layout_default", FALSE>> >>

\* the implementation limits, each exceeded in turn
LimitDeviations ==
    << <<"batch_sz", 1>>, <<"batch_sz", 2>>, <<"n_inputs", 17>>, <<"n_outputs", 17>>,
       <<"in_height", Pow2_16>>, <<"in_width", Pow2_16>>,
       <<"out_height", Pow2_16>>, <<"out_width", Pow2_16>>,
       <<"pad_w", Pow2_16>>, <<"pad_h", Pow2_16>>, <<"max_cu", Pow2_16>>,
       <<"backward_pad_w", 0 - 1>>, <<"backward_pad_h", Pow2_16>> >>

\* contexts: every combination of strides, dilations, bias, group count and
\* filter size, with one gate and one limit deviation
ConvContexts ==
    { [Deviate(Deviate(GoodCtx, GateDeviations[g]), LimitDeviations[l])
         EXCEPT !.kernel_stride_w = sw, !.kernel_stride_h = sh,
                !.kernel_dilation_w = dw, !.kernel_dilation_h = dh,
                !.bias = b, !.group_counts = gc,
                !.kernel_size_h = r, !.kernel_size_w = fs] :
        g \in 1..Len(GateDeviations), l \in 1..Len(LimitDeviations),
        sw \in 1..2, sh \in 1..2, dw \in 1..2, dh \in 1..2, b \in 0..1, gc \in 1..2,
        r \in 1..MaxFilter, fs \in 1..MaxFilter }

ApplicableInit ==
    /\ conv_ctx \in ConvContexts
    /\ env \in { [disabled |-> d] : d \in BOOLEAN }
    /\ config = None
    /\ disableConfigOverrideFromEnv = FALSE
    /\ conv_called = {}
    /\ is_applicable = FALSE
    /\ solution = NoConvSolution
    /\ WalkIdle
    /\ InvIdle
    /\ PerfIdle
    /\ BnIdle

ApplicableNext == IsApplicableCall

SpecApplicable == ApplicableInit /\ [][ApplicableNext]_vars

\* ------------------------------------------------------------------------
\* ConvBinWinogradUltraRxSf2x3::GetSolution
\* ------------------------------------------------------------------------
\* Strings are sequences of characters.
Digits == <<"0", "1", "2", "3", "4", "5", "6", "7", "8", "9">>

IsDigit(ch) == \E d \in 1..Len(Digits) : Digits[d] = ch

DigitValue(ch) == (CHOOSE d \in 1..Len(Digits) : Digits[d] = ch) - 1

\* the value of a string of decimal digits
RECURSIVE ParseDecimal(_)
ParseDecimal(t) ==
    IF t = <<>> THEN 0
    ELSE 10 * ParseDecimal(SubSeq(t, 1, Len(t) - 1)) + DigitValue(t[Len(t)])

IsNumber(t) == t # <<>> /\ \A i \in 1..Len(t) : IsDigit(t[i])

\* Deserialize: "group_count,interleave_factor"; malformed text and values
\* out of range are refused and leave the configuration as it was
Deserialize(cfg, t) ==
    LET commas == {i \in 1..Len(t) : t[i] = ","}
    IN  IF Cardinality(commas) # 1 THEN [ok |-> FALSE, value |-> cfg]
        ELSE LET i == CHOOSE c \in commas : TRUE
                 a == SubSeq(t, 1, i - 1)
                 b == SubSeq(t, i + 1, Len(t))
             IN  IF ~IsNumber(a) \/ ~IsNumber(b) THEN [ok |-> FALSE, value |-> cfg]
                 ELSE IF ~SpanIsIn(ParseDecimal(a)) \/ ParseDecimal(b) < 1
                 THEN [ok |-> FALSE, value |-> cfg]
                 ELSE [ok |-> TRUE,
                       value |-> PerformanceConfig(ParseDecimal(a), ParseDecimal(b))]

\* the default-constructed fromEnv
DefaultConfig == PerformanceConfig(SpanLow, 1)

\* mutant: a parsed override used without asking IsValid
SelectConfigUnvalidated(params, cfg, e, disable) ==
    IF disable THEN [pcfg |-> cfg, from_env |-> FALSE, logged |-> FALSE]
    ELSE IF ~e.set THEN [pcfg |-> cfg, from_env |-> FALSE, logged |-> FALSE]
    ELSE IF e.text = <<>> THEN [pcfg |-> cfg, from_env |-> FALSE, logged |-> FALSE]
    ELSE LET r == Deserialize(DefaultConfig, e.text)
         IN  IF ~r.ok
             THEN [pcfg |-> cfg, from_env |-> FALSE, logged |-> TRUE]
             ELSE [pcfg |-> r.value, from_env |-> TRUE, logged |-> FALSE]

\* the configuration pcfg points to after the override block, and whether the
\* error was logged
SelectConfig(params, cfg, e, disable) ==
    IF disable THEN [pcfg |-> cfg, from_env |-> FALSE, logged |-> FALSE]
    ELSE IF ~e.set THEN [pcfg |-> cfg, from_env |-> FALSE, logged |-> FALSE]
    ELSE IF e.text = <<>> THEN [pcfg |-> cfg, from_env |-> FALSE, logged |-> FALSE]
    ELSE LET r == Deserialize(DefaultConfig, e.text)
         IN  IF ~r.ok \/ ~IsValid(params.max_cu, r.value.n_groups)
             THEN [pcfg |-> cfg, from_env |-> FALSE, logged |-> TRUE]
             ELSE [pcfg |-> r.value, from_env |-> TRUE, logged |-> FALSE]

wg_size == 256

\* GetCompiledInParameters, forward direction
CompiledInParameters(params) ==
    Geom(params.batch_sz, params.n_inputs, params.in_height, params.in_width,
         params.out_height, params.out_width, params.pad_h, params.pad_w)

\* F_REVERSE_R + F_REVERSE_S + F_FLIP_K_C
BackwardFlags == 1 + 2 + 4

\* mutant: step_1_pitch without the rewind of the row
Step1PitchNoRewind(tile_step_H, tile_step_W, H_pitch, W_pitch, tiles_n_row) ==
    tile_step_H * H_pitch

\* step_1_pitch and step_2_pitch of a buffer
Step1Pitch(tile_step_H, tile_step_W, H_pitch, W_pitch, tiles_n_row) ==
    tile_step_H * H_pitch - tiles_n_row * tile_step_W * W_pitch

Step2Pitch(tile_step_H, N_pitch, H_pitch, tiles_n_column) ==
    N_pitch - tiles_n_column * tile_step_H * H_pitch

\* GetSolution up to the call of WU_control_make_3x3
GetSolutionEntry ==
    /\ pc = "entry"
    /\ LET local_n_groups == config.n_groups
           sel == SelectConfig(conv_ctx, config, env, disableConfigOverrideFromEnv)
           g == CompiledInParameters(conv_ctx)
           a == CallArgs(g, local_n_groups, sel.pcfg.intl_factor)
           tiles_n_row == (g.o_W + o_tile_step_W - 1) \div o_tile_step_W
           tiles_n_column == (g.o_H + o_tile_step_H - 1) \div o_tile_step_H
       IN  /\ arg' = a
           /\ solution' =
                [built |-> TRUE,
                 pcfg |-> sel.pcfg, from_env |-> sel.from_env, logged |-> sel.logged,
                 g_wk |-> <<wg_size * sel.pcfg.n_groups * conv_ctx.group_counts, 1, 1>>,
                 l_wk |-> <<wg_size, 1, 1>>,
                 flags |-> IF conv_ctx.direction = "Forward" THEN 0 ELSE BackwardFlags,
                 n_groups |-> local_n_groups,
                 d_step_1_pitch |-> Step1Pitch(d_tile_step_H, d_tile_step_W,
                                               a.d_stride_H, a.d_stride_W, tiles_n_row),
                 d_step_2_pitch |-> Step2Pitch(d_tile_step_H, a.d_stride_N,
                                               a.d_stride_H, tiles_n_column),
                 o_step_1_pitch |-> Step1Pitch(o_tile_step_H, o_tile_step_W,
                                               a.o_stride_H, a.o_stride_W, tiles_n_row),
                 o_step_2_pitch |-> Step2Pitch(o_tile_step_H, a.o_stride_N,
                                               a.o_stride_H, tiles_n_column)]
    /\ conv_called' = conv_called \cup {"GetSolution"}
    /\ pc' = "walk"
    /\ UNCHANGED <<o_cur_w, o_cur_h, cur_n, n, w_info, lane_cursor, w_info_intl, intl_i,
                   gpu_control>>
    /\ UNCHANGED <<conv_ctx, env, config, disableConfigOverrideFromEnv, is_applicable>>
    /\ UNCHANGED <<invVars, perfVars, bnVars>>

\* values of MIOPEN_DEBUG_AMD_WINOGRAD_ULTRA_RXS_F2X3_PERF_VALS
EnvTexts ==
    { <<>>, <<"2", ",", "1">>, <<"2", ",", "2">>, <<"3", ",", "2">>,
      <<"1", "0", ",", "1">>, <<"x">>, <<"2">>, <<"2", ",">>, <<",", "2">>,
      <<"2", ",", "x">>, <<"0", ",", "1">>, <<"6", "0", "0", ",", "1">>,
      <<"2", ",", "0">>, <<"2", ",", "1", ",", "1">> }

EnvSettings ==
    { [disabled |-> FALSE, set |-> FALSE, text |-> <<>>] }
    \cup { [disabled |-> FALSE, set |-> TRUE, text |-> t] : t \in EnvTexts }

\* an accepted problem of one row of tiles and one descriptor
SolutionCtx(cu) ==
    [GoodCtx EXCEPT !.in_height = InDim(o_tile_H, 1), !.out_height = o_tile_H,
                    !.in_width = InDim(o_tile_W * group_size, 1),
                    !.out_width = o_tile_W * group_size,
                    !.max_cu = cu]

SolutionInit ==
    /\ \E cu \in {MaxCU, 2 * MAX_CU_LIMIT} : conv_ctx = SolutionCtx(cu)
    /\ env \in EnvSettings
    /\ \E g \in {1, MaxCU}, f \in 0..2 : config = PerformanceConfig(g, f)
    /\ disableConfigOverrideFromEnv \in BOOLEAN
    /\ conv_called = {}
    /\ is_applicable = FALSE
    /\ solution = NoConvSolution
    /\ arg = None
    /\ o_cur_w = 0
    /\ o_cur_h = 0
    /\ cur_n = 0
    /\ n = 0
    /\ w_info = <<>>
    /\ lane_cursor = <<>>
    /\ w_info_intl = <<>>
    /\ intl_i = 0
    /\ gpu_control = <<>>
    /\ pc = "entry"
    /\ InvIdle
    /\ PerfIdle
    /\ BnIdle

SolutionNext ==
    GetSolutionEntry \/ WalkStep \/ WalkExit \/ InterleaveStep \/ InterleaveExit
        \/ EncodeStep

SpecSolution == SolutionInit /\ [][SolutionNext]_vars

\* ========================================================================
\* Properties
\* ========================================================================
CeilDiv(a, b) == (a + b - 1) \div b

TilesW == CeilDiv(arg.o_W, o_tile_W)

TilesH == CeilDiv(arg.o_H, o_tile_H)

TileCount == arg.N * TilesH * TilesW

WalkReturned == pc \in {"interleave", "encode", "done"}

NonEmptyProblem == arg.N > 0 /\ arg.o_H > 0 /\ arg.o_W > 0

\* the (descriptor, lane) pairs whose lane started from cursor (col, row, batch)
LanesAt(col, row, batch) ==
    { dl \in (1..Len(lane_cursor)) \X (1..group_size) :
        lane_cursor[dl[1]][dl[2]] = [col |-> col, row |-> row, batch |-> batch] }

\* C1 as stated: when the raster walk of a problem with N > 0, out_H > 0 and
\* out_W > 0 has returned, it has produced N * ceil(out_H/2) * ceil(out_W/2)
\* descriptors.
C1_OneDescriptorPerTile ==
    (WalkReturned /\ NonEmptyProblem) => Len(w_info) = TileCount

\* C1 amended: the raster walk produces ceil(N * ceil(out_H/2) * ceil(out_W/2)
\* / 64) descriptors, each of 64 lanes, and every (tile-row, tile-column,
\* batch-index) is the cursor of exactly one lane; N = 1, out_H = out_W = 32,
\* pad 1 gives 4 descriptors.
C1_OneLanePerTile ==
    (WalkReturned /\ NonEmptyProblem) =>
        /\ Len(w_info) = CeilDiv(TileCount, group_size)
        /\ n = Len(w_info)
        /\ \A b \in 0..(arg.N - 1), r \in 0..(TilesH - 1), c \in 0..(TilesW - 1) :
              Cardinality(LanesAt(c * o_tile_step_W, r * o_tile_step_H, b)) = 1
        /\ (arg.N = 1 /\ arg.o_H = 32 /\ arg.o_W = 32 /\ arg.pad_H = 1 /\ arg.pad_W = 1)
              => Len(w_info) = 4

\* C1 witness: a walk that returned with two descriptors for more than
\* group_size tiles, the second one partly filled
C1_Witness ==
    WalkReturned /\ NonEmptyProblem /\ TileCount > group_size
    /\ TileCount % group_size # 0 /\ Len(w_info) = 2

\* ------------------------------------------------------------------------
\* bit of input-tile element (i, j) of lane l in a descriptor: the lane's
\* four bits of row j are appended, i ascending, to word d_clip[l*4/64][j]
DMaskBit(w, l, i, j) ==
    QBit(w.d_clip[(l * d_tile_W) \div QWORD_BITS][j],
         (QWORD_BITS - 1) - (((l * d_tile_W) % QWORD_BITS) + i))

OMaskBit(w, l, i, j) ==
    QBit(w.o_clip[(l * o_tile_W) \div QWORD_BITS][j],
         (QWORD_BITS - 1) - (((l * o_tile_W) % QWORD_BITS) + i))

Outside(x, dim) == x < 0 \/ x >= dim

\* C4: in every descriptor, for each of its 64 lanes with cursor (col, row,
\* batch), the input-mask bit of element (i, j) is 1 iff col - pad_W + i is
\* outside [0, W) or row - pad_H + j is outside [0, H) or batch >= N, and the
\* output-mask bit of element (i, j) is 1 iff col + i >= out_W or
\* row + j >= out_H or batch >= N; lanes past the last tile are all ones.
C4_ClipMasksExact ==
    \A d \in 1..Len(w_info) :
        /\ Len(lane_cursor[d]) = group_size
        /\ \A l \in 0..(group_size - 1) :
              LET c == lane_cursor[d][l + 1]
              IN  /\ \A i \in 0..(d_tile_W - 1), j \in 0..(d_tile_H - 1) :
                        (DMaskBit(w_info[d], l, i, j) = 1) <=>
                            \/ Outside(c.col - arg.pad_W + i, arg.W)
                            \/ Outside(c.row - arg.pad_H + j, arg.H)
                            \/ c.batch >= arg.N
                  /\ \A i \in 0..(o_tile_W - 1), j \in 0..(o_tile_H - 1) :
                        (OMaskBit(w_info[d], l, i, j) = 1) <=>
                            \/ c.col + i >= arg.o_W
                            \/ c.row + j >= arg.o_H
                            \/ c.batch >= arg.N
                  /\ (c.batch >= arg.N) =>
                        /\ \A i \in 0..(d_tile_W - 1), j \in 0..(d_tile_H - 1) :
                              DMaskBit(w_info[d], l, i, j) = 1
                        /\ \A i \in 0..(o_tile_W - 1), j \in 0..(o_tile_H - 1) :
                              OMaskBit(w_info[d], l, i, j) = 1

\* C4 witness: descriptors with a lane that is partly clipped (an element in
\* range and an element out of range, in the input and in the output tile),
\* a lane fully in range and a lane past the last tile
C4_Witness ==
    /\ \E d \in 1..Len(w_info), l \in 0..(group_size - 1) :
          /\ lane_cursor[d][l + 1].batch < arg.N
          /\ \E i \in 0..(d_tile_W - 1), j \in 0..(d_tile_H - 1) :
                DMaskBit(w_info[d], l, i, j) = 1
          /\ \E i \in 0..(d_tile_W - 1), j \in 0..(d_tile_H - 1) :
                DMaskBit(w_info[d], l, i, j) = 0
          /\ \E i \in 0..(o_tile_W - 1), j \in 0..(o_tile_H - 1) :
                OMaskBit(w_info[d], l, i, j) = 1
          /\ \E i \in 0..(o_tile_W - 1), j \in 0..(o_tile_H - 1) :
                OMaskBit(w_info[d], l, i, j) = 0
    /\ \E d \in 1..Len(w_info), l \in 0..(group_size - 1) :
          \A i \in 0..(d_tile_W - 1), j \in 0..(d_tile_H - 1) :
                DMaskBit(w_info[d], l, i, j) = 0
    /\ \E d \in 1..Len(w_info), l \in 0..(group_size - 1) :
          lane_cursor[d][l + 1].batch >= arg.N

\* ------------------------------------------------------------------------
NothingProduced ==
    n = 0 /\ w_info = <<>> /\ w_info_intl = <<>> /\ gpu_control = <<>>

\* C5 as stated: if N = 0 or any of H, W, out_H, out_W is 0, the descriptor
\* sequence and the blob are empty and no loop iterates.
C5_ZeroSizedEmpty ==
    (arg.N = 0 \/ arg.H = 0 \/ arg.W = 0 \/ arg.o_H = 0 \/ arg.o_W = 0)
        => NothingProduced

\* C5 amended: if N = 0 or out_H = 0 or out_W = 0, the descriptor sequence
\* and the blob are empty and no loop iterates (a zero H or W alone does not
\* stop the walk, which is controlled by the output sizes).
C5_ZeroOutputEmpty ==
    (arg.N = 0 \/ arg.o_H = 0 \/ arg.o_W = 0) => NothingProduced

\* C5 witness: the compiler ran to its end on a problem whose only zero
\* extent is out_W
C5_Witness ==
    pc = "done" /\ arg.o_W = 0 /\ arg.N > 0 /\ arg.o_H > 0 /\ arg.H > 0
    /\ gpu_control = <<>>

\* ------------------------------------------------------------------------
\* C2: the interleave step outputs a permutation of the raster sequence: the
\* same length, and every input descriptor exactly once (the descriptors of
\* SpecIntl are pairwise different).
C2_InterleavePermutes ==
    (pc = "encode") =>
        /\ Len(w_info_intl) = Len(w_info)
        /\ \A x \in 1..Len(w_info) :
              Cardinality({ p \in 1..Len(w_info_intl) : w_info_intl[p] = w_info[x] }) = 1

\* C2 witness: an interleaved sequence that is reordered and ends in a
\* partial block
C2_Witness ==
    /\ pc = "encode"
    /\ w_info_intl # w_info
    /\ Len(w_info) > arg.intl_factor * arg.n_groups
    /\ Len(w_info) % (arg.intl_factor * arg.n_groups) # 0
    /\ arg.intl_factor > 1 /\ arg.n_groups > 1

\* ------------------------------------------------------------------------
\* A decoder of one 64-word record by the documented mapping: bit k of lane j
\* is bit 31 - j of word k (natural lanes 0, 1) or of word 63 - k (lanes 2..23)
NaturalLanes == {0, 1}

WBit(word, b) == word[CONTROL_LANES - b]

Record(p) == SubSeq(gpu_control, (p - 1) * BLOCK_WORDS + 1, p * BLOCK_WORDS)

DecodeBit(rec, j, k) ==
    WBit(rec[(IF j \in NaturalLanes THEN k ELSE (BLOCK_WORDS - 1) - k) + 1],
         (CONTROL_LANES - 1) - j)

DecodeQword(rec, j) == [p \in 1..QWORD_BITS |-> DecodeBit(rec, j, QWORD_BITS - p)]

RECURSIVE LowBitsValue(_, _, _)
LowBitsValue(q, k, flip) ==
    IF k > 30 THEN 0
    ELSE (IF flip THEN 1 - QBit(q, k) ELSE QBit(q, k)) * (2 ^ k) + LowBitsValue(q, k + 1, flip)

\* the int64_t a qword stands for, when it fits 32 bits (else "overflow")
SignedValue(q) ==
    IF \E k \in 31..(QWORD_BITS - 1) : QBit(q, k) # QBit(q, QWORD_BITS - 1)
    THEN "overflow"
    ELSE IF QBit(q, QWORD_BITS - 1) = 0 THEN LowBitsValue(q, 0, FALSE)
    ELSE 0 - LowBitsValue(q, 0, TRUE) - 1

DecodeRecord(rec) ==
    [d_load_offset_addr  |-> SignedValue(DecodeQword(rec, 0)),
     o_store_offset_addr |-> SignedValue(DecodeQword(rec, 1)),
     step_1_pos |-> DecodeQword(rec, 2),
     step_2_pos |-> DecodeQword(rec, 3),
     d_clip |-> [k \in 0..(d_clip_tiles_QW - 1) |-> [j \in 0..(d_tile_H - 1) |->
                    DecodeQword(rec, 4 + k * d_tile_H + j)]],
     o_clip |-> [k \in 0..(o_clip_tiles_QW - 1) |-> [j \in 0..(o_tile_H - 1) |->
                    DecodeQword(rec, 20 + k * o_tile_H + j)]]]

\* C3: every 64-word record of the blob decodes, by the documented lane and
\* bit-order mapping, to exactly the descriptor it was emitted from (signed
\* offsets, both flag words, all 20 mask words), so different descriptors
\* have different records.
C3_RoundTrip ==
    (pc = "done") =>
        /\ Len(gpu_control) = BLOCK_WORDS * Len(w_info_intl)
        /\ \A p \in 1..Len(w_info_intl) : DecodeRecord(Record(p)) = w_info_intl[p]
        /\ \A p \in 1..Len(w_info_intl), q \in 1..Len(w_info_intl) :
              (w_info_intl[p] # w_info_intl[q]) =>
                  EncodeBlock(w_info_intl[p], 0) # EncodeBlock(w_info_intl[q], 0)

\* C3 witness: an encoded blob of several records whose first descriptor has
\* a negative input offset and flags set in the first and the last lane
C3_Witness ==
    /\ pc = "done"
    /\ Len(w_info_intl) >= 2
    /\ w_info_intl[1].d_load_offset_addr < 0
    /\ w_info_intl[1].o_store_offset_addr >= 0
    /\ \E p \in 1..Len(w_info_intl) :
          QBit(w_info_intl[p].step_2_pos, 0) # QBit(w_info_intl[p].step_2_pos, QWORD_BITS - 1)

\* ------------------------------------------------------------------------
Invoked == n_invoked > 0

\* C6: every invocation of the closure fails with the sizing error whenever
\* the supplied workspace is null or smaller than the byte size of the
\* compiled control blob; it never gives a blob larger than the supplied
\* workspace to the copy, and never copies less than the whole blob.
C6_WorkspaceCapacity ==
    Invoked =>
        /\ (workspace = "nullptr" \/ workspaceSize < DataSize)
              => outcome = "sizing_error"
        /\ outcome # "sizing_error"
              => (write_size <= workspaceSize /\ write_size = DataSize)

\* ------------------------------------------------------------------------
\* C7: from n_groups = 1, the k-th call of SetNextValue leaves n_groups at
\* k + 1 and returns true for k < 512, so the values 1..512 are visited once
\* each in increasing order; the call made at 512 wraps n_groups to 1 and
\* returns false, and the enumeration restarts; intl_factor never changes.
C7_Enumeration ==
    /\ [](n_groups = (perf_calls % MAX_CU_LIMIT) + 1)
    /\ [](perf_calls > 0 => perf_ret = (n_groups # 1))
    /\ [][intl_factor' = intl_factor
          /\ n_groups' = (IF n_groups = MAX_CU_LIMIT THEN 1 ELSE n_groups + 1)
          /\ perf_ret' = (n_groups # MAX_CU_LIMIT)]_vars

\* C7 witness: the enumeration has wrapped and restarted
C7_Witness ==
    /\ perf_calls = MAX_CU_LIMIT + 1
    /\ n_groups = 2
    /\ perf_ret = TRUE
    /\ intl_factor > 1

\* ------------------------------------------------------------------------
\* C8: IsValid is true exactly when 1 <= n_groups <= 512 and n_groups is at
\* most the compute-unit count of the context, and IsValidPerformanceConfig
\* returns the same.
C8_IsValidExact ==
    perf_op \in {"IsValid", "IsValidPerformanceConfig"} =>
        perf_ret = (1 <= n_groups /\ n_groups <= 512 /\ n_groups <= max_cu)

\* C8 witness: a group count of the range rejected for exceeding the
\* compute-unit count
C8_Witness ==
    /\ perf_op = "IsValid"
    /\ 1 <= n_groups /\ n_groups <= 512
    /\ n_groups = max_cu + 1
    /\ perf_ret = FALSE

\* ------------------------------------------------------------------------
\* the tensor lengths as numbers: HW = H x W, and N x H x W < lim decided
\* without forming the product
HW == bn_problem.h * bn_problem.w

NHWBelow(lim) == bn_problem.n <= (lim - 1) \div HW

CeilBlock == Min(1024, 64 * CeilDiv(HW, 64))

MixActive == bn_problem.xtype = "miopenHalf" /\ bn_problem.sbtype = "miopenFloat"

FullPrecision == ~(bn_problem.xtype = "miopenHalf")

\* variant and block by the table, and the grid where the table gives one
TableChoice ==
    IF HW > 1024 /\ NHWBelow(32 * 1024 * 1024)
    THEN [variant |-> 1, block |-> 1024, grid |-> {bn_problem.c * 1024}]
    ELSE IF HW > 512 /\ NHWBelow(32 * 1024 * 1024)
    THEN [variant |-> IF bn_problem.n >= 32 THEN 1 ELSE 3, block |-> CeilBlock,
          grid |-> {}]
    ELSE IF HW <= 512
    THEN IF bn_problem.n > 64 /\ HW > 160
         THEN [variant |-> 3, block |-> CeilBlock, grid |-> {}]
         ELSE [variant |-> 0, block |-> IF FullPrecision THEN 1024 ELSE 256,
               grid |-> {}]
    ELSE [variant |-> 2, block |-> 1024, grid |-> {1024 * CeilDiv(HW, 1024)}]

\* the block and grid of the dimension the variant partitions
ChosenBlock ==
    IF bn_solution.variant = 2 THEN bn_solution.ylocalsize ELSE bn_solution.xlocalsize

ChosenGrid ==
    IF bn_solution.variant = 2 THEN bn_solution.ygridsize ELSE bn_solution.xgridsize

\* C9: GetSolution selects variant and block size by the first-match-wins
\* table on (HW, NHW, N, precision), and variant 1 with block 1024 replaces
\* the table's choice when precision mixing is active and 60 < HW < 200;
\* HW = 2000, N = 16 gives variant 1, block 1024, grid C x 1024, and for
\* HW = 100, N = 100 the table gives variant 0 and not 3.
C9_VariantTable ==
    "GetSolution" \in bn_called =>
        /\ IF MixActive /\ 60 < HW /\ HW < 200
           THEN bn_solution.variant = 1 /\ ChosenBlock = 1024
           ELSE /\ bn_solution.variant = TableChoice.variant
                /\ ChosenBlock = TableChoice.block
                /\ \A g \in TableChoice.grid : ChosenGrid = g
        /\ (HW = 2000 /\ bn_problem.n = 16) =>
              /\ bn_solution.variant = 1
              /\ bn_solution.xlocalsize = 1024
              /\ bn_solution.xgridsize = bn_problem.c * 1024
        /\ (HW = 100 /\ bn_problem.n = 100 /\ ~MixActive) => bn_solution.variant = 0

\* ------------------------------------------------------------------------
IsBackwardSpatial ==
    bn_problem.direction = "Backward" /\ bn_problem.mode = "miopenBNSpatial"

\* C10 as stated: IsApplicable is true for every backward spatial problem,
\* whatever the tensor lengths, and false otherwise.
C10_OnlyDirectionAndMode ==
    "IsApplicable" \in bn_called => (bn_applicable = IsBackwardSpatial)

\* C10: IsApplicable is false unless the problem is backward and spatial; for
\* a backward spatial problem it is true exactly when H x W <= 512 or the
\* unsigned 32-bit product N x H x W is below 32Mi; the context plays no part.
C10_DirectionModeAndSize ==
    "IsApplicable" \in bn_called =>
        (bn_applicable =
            (IsBackwardSpatial
             /\ (HW <= 512 \/ UnsignedLess(UnsignedMul(bn_problem.n, HW), 32 * 1024 * 1024))))

\* C10 witness: a backward spatial problem that is not applicable
C10_Witness ==
    /\ IsBackwardSpatial
    /\ HW > 512
    /\ ~NHWBelow(32 * 1024 * 1024)
    /\ "IsApplicable" \in bn_called
    /\ bn_applicable = FALSE

\* ------------------------------------------------------------------------
ApplicableCalled == "IsApplicable" \in conv_called

\* C11 as stated: IsApplicable returns false for every problem whose filter
\* is not 3x3.
C11_OnlyThreeByThree ==
    (ApplicableCalled /\ (conv_ctx.kernel_size_h # 3 \/ conv_ctx.kernel_size_w # 3))
        => ~is_applicable

\* C11: IsApplicable returns false for every problem whose filter has more
\* than 3 rows or more than 3 columns, so the compiler is only reached with
\* R <= 3 and S <= 3.
C11_AtMostThreeByThree ==
    (ApplicableCalled /\ (conv_ctx.kernel_size_h > 3 \/ conv_ctx.kernel_size_w > 3))
        => ~is_applicable

\* C11 witness: the accepted scenario with a fourth filter column is refused
C11_Witness ==
    /\ ApplicableCalled
    /\ ~env.disabled
    /\ conv_ctx = [GoodCtx EXCEPT !.kernel_size_w = 4]
    /\ ~is_applicable

\* ------------------------------------------------------------------------
\* C12: IsApplicable returns false for every problem with a stride of 2 in
\* either axis, a dilation of 2 in either axis, a bias or a group count other
\* than 1, whatever the other fields and the disable switch.
C12_StrideDilationBiasGroups ==
    (ApplicableCalled
     /\ (\/ conv_ctx.kernel_stride_w = 2 \/ conv_ctx.kernel_stride_h = 2
         \/ conv_ctx.kernel_dilation_w = 2 \/ conv_ctx.kernel_dilation_h = 2
         \/ conv_ctx.bias # 0 \/ conv_ctx.group_counts # 1))
        => ~is_applicable

\* C12 witness: the accepted scenario with a vertical stride of 2 is refused
C12_Witness ==
    /\ ApplicableCalled
    /\ ~env.disabled
    /\ conv_ctx = [GoodCtx EXCEPT !.kernel_stride_h = 2]
    /\ ~is_applicable

\* ------------------------------------------------------------------------
\* the override texts that are well formed, with the values they stand for
WellFormedTexts ==
    { [text |-> <<"2", ",", "1">>, n_groups |-> 2, intl_factor |-> 1],
      [text |-> <<"2", ",", "2">>, n_groups |-> 2, intl_factor |-> 2],
      [text |-> <<"3", ",", "2">>, n_groups |-> 3, intl_factor |-> 2],
      [text |-> <<"1", "0", ",", "1">>, n_groups |-> 10, intl_factor |-> 1] }

\* the override of the environment, when it is consulted, parses and is valid
\* for the context
UsableOverrides ==
    { t \in WellFormedTexts :
        /\ ~disableConfigOverrideFromEnv
        /\ env.set
        /\ env.text = t.text
        /\ t.n_groups <= conv_ctx.max_cu }

BuiltFrom(c) ==
    /\ solution.pcfg = c
    /\ solution.g_wk[1] = 256 * c.n_groups * conv_ctx.group_counts
    /\ arg.n_groups = c.n_groups
    /\ arg.intl_factor = c.intl_factor
    /\ solution.n_groups = c.n_groups

\* C13: an override that is absent, empty, malformed or not valid for the
\* context is ignored and the solution is built from the caller's
\* configuration alone; the configuration is replaced only by an override that
\* parses and is valid, and then by the values of the text; with
\* disableConfigOverrideFromEnv the override is never consulted.
C13_OverrideHandling ==
    solution.built =>
        /\ solution.from_env = (UsableOverrides # {})
        /\ UsableOverrides = {} => BuiltFrom(config)
        /\ \A t \in UsableOverrides :
              solution.pcfg = [n_groups |-> t.n_groups, intl_factor |-> t.intl_factor]
        /\ disableConfigOverrideFromEnv => ~solution.logged
        /\ solution.logged => (env.set /\ env.text # <<>> /\ UsableOverrides = {})

\* C13 witness: a well-formed override that exceeds the compute units of the
\* context has been logged and ignored, and the blob compiled
C13_Witness ==
    /\ pc = "done"
    /\ env.text = <<"1", "0", ",", "1">>
    /\ conv_ctx.max_cu < 10
    /\ solution.logged
    /\ BuiltFrom(config)
    /\ config.intl_factor = 2

\* ------------------------------------------------------------------------
\* C18: the group count that sizes the launch grid is the group count used to
\* interleave the control blob and the group count passed to the kernel, and
\* the interleave factor used comes from the same configuration.
C18_OneGroupCount ==
    solution.built =>
        /\ solution.g_wk[1] = 256 * arg.n_groups * conv_ctx.group_counts
        /\ solution.n_groups = arg.n_groups
        /\ \E c \in {config, solution.pcfg} :
              arg.n_groups = c.n_groups /\ arg.intl_factor = c.intl_factor

\* ------------------------------------------------------------------------
\* bit k of field lane j of a record, read in natural order: bit 31 - j of
\* word k
NaturalBit(rec, j, k) == WBit(rec[k + 1], (CONTROL_LANES - 1) - j)

\* C14: in every 64-word record of the blob, lane 24 carries in natural bit
\* order the record's position in the emitted, interleaved sequence (record
\* number p carries p, counted from 0), lanes 25..31 are zero in all 64 words,
\* and the clip-mask lanes end at lane 23, below the index lane.
C14_IndexLane ==
    (pc = "done") =>
        /\ 4 + d_clip_tiles_QW * d_tile_H = 20
        /\ 20 + o_clip_tiles_QW * o_tile_H = INDEX_LANE
        /\ \A p \in 1..Len(w_info_intl) :
              /\ \A k \in 0..(BLOCK_WORDS - 1) :
                    NaturalBit(Record(p), INDEX_LANE, k) = NatBit(p - 1, k)
              /\ \A j \in (INDEX_LANE + 1)..(CONTROL_LANES - 1), k \in 0..(BLOCK_WORDS - 1) :
                    NaturalBit(Record(p), j, k) = 0

\* C14 witness: an interleaved blob of four records whose third record, a
\* descriptor of another raster position, carries index 2
C14_Witness ==
    /\ pc = "done"
    /\ Len(w_info_intl) = 4
    /\ arg.intl_factor > 1
    /\ w_info_intl[3] # w_info[3]
    /\ NaturalBit(Record(3), INDEX_LANE, 1) = 1
    /\ NaturalBit(Record(3), INDEX_LANE, 0) = 0

\* ------------------------------------------------------------------------
\* the cursor of the lane step number L (counted from 0 over all descriptors)
LaneNumber(d, l) == (d - 1) * group_size + (l - 1)

RasterCursor(L) ==
    [col   |-> ((L % (TilesH * TilesW)) % TilesW) * o_tile_step_W,
     row   |-> ((L % (TilesH * TilesW)) \div TilesW) * o_tile_step_H,
     batch |-> L \div (TilesH * TilesW)]

WhileEvaluated == pc = "walk"

C15_CursorInRange ==
    (NonEmptyProblem /\ (WhileEvaluated \/ WalkReturned)) =>
        /\ o_cur_w < arg.o_W
        /\ o_cur_h < arg.o_H
        /\ WhileEvaluated => (WhileCond <=> cur_n < arg.N)
        /\ WalkReturned => cur_n >= arg.N
        /\ n <= TileCount
        /\ n = Len(lane_cursor)
        /\ \A d \in 1..Len(lane_cursor), l \in 1..group_size :
              lane_cursor[d][l] = RasterCursor(LaneNumber(d, l))
        /\ [col |-> o_cur_w, row |-> o_cur_h, batch |-> cur_n] = RasterCursor(n * group_size)

C15_WalkProgress ==
    (WhileEvaluated /\ pc' = "walk") => (n' = n + 1 /\ cur_n' >= cur_n)

\* C15: for N, out_H, out_W >= 1 the cursor satisfies out_col < out_W and
\* out_row < out_H at every evaluation of the while condition, batch_index
\* never decreases and is the lane-step number divided by
\* ceil(out_H/2) * ceil(out_W/2), the loop continues exactly while
\* batch_index < N, and the walk ends after at most
\* N * ceil(out_H/2) * ceil(out_W/2) descriptors: every iteration adds one
\* descriptor and the count never exceeds that bound.
C15_BatchExhaustion ==
    /\ []C15_CursorInRange
    /\ [][C15_WalkProgress]_vars

\* C15 witness: the while condition is evaluated after a first descriptor
\* that ended in the middle of a row of the second batch
C15_Witness ==
    /\ WhileEvaluated
    /\ n = 1
    /\ cur_n = 1
    /\ arg.N = 2
    /\ o_cur_w > 0
    /\ o_cur_h > 0

\* ------------------------------------------------------------------------
Before(e1, e2) ==
    \A i \in 1..Len(events) :
        (events[i] = e2) => \E j \in 1..(i - 1) : events[j] = e1

Happened(e) == \E i \in 1..Len(events) : events[i] = e

WorkspaceCheckFails ==
    (workspace = "nullptr" /\ GetWorkspaceSize > 0) \/ workspaceSize < GetWorkspaceSize

C16_EventOrder ==
    Invoked =>
        /\ Before("Finish", "WriteBuffer")
        /\ Before("WriteBuffer", "Kernel")
        /\ \A i \in 1..Len(events), j \in 1..Len(events) :
              (events[i] = events[j]) => i = j
        /\ WorkspaceCheckFails <=> (outcome = "sizing_error")
        /\ WorkspaceCheckFails =>
              ~Happened("Finish") /\ ~Happened("WriteBuffer") /\ ~Happened("Kernel")
        /\ (outcome = "copy_error") => (Happened("WriteBuffer") /\ ~Happened("Kernel"))
        /\ Happened("Kernel") <=> (outcome = "launched")
        /\ Happened("WriteBuffer") => write_size = DataSize

C16_SameBlob ==
    (n_invoked' # n_invoked) => (gpu_control' = gpu_control /\ pc' = pc)

\* C16: in every invocation of the closure the stream Finish comes after the
\* workspace check, the blocking copy of the blob after Finish and the kernel
\* dispatch after the copy; a failed workspace check is followed by no Finish,
\* copy or dispatch and a failed copy by no dispatch; every invocation leaves
\* the captured blob as it was and copies all of it.
C16_InvocationOrder ==
    /\ []C16_EventOrder
    /\ [][C16_SameBlob]_vars

\* C16 witness: a second invocation of the same closure has dispatched the
\* kernel after copying a blob of several records
C16_Witness ==
    /\ n_invoked = 2
    /\ outcome = "launched"
    /\ events = <<"Run", "Finish", "WriteBuffer", "Kernel">>
    /\ Len(gpu_control) > BLOCK_WORDS
    /\ write_size = DataSize

\* ------------------------------------------------------------------------
\* descriptors per block of the interleave
BlockLen == arg.intl_factor * arg.n_groups

\* C17: with interleave_factor 1 the interleaved sequence is the raster
\* sequence; for interleave_factor F and group_count G, in every full block of
\* F * G descriptors that starts at raster index b, output position k * G + m
\* (0 <= k < F, 0 <= m < G) holds raster descriptor b + m * F + k, and every
\* descriptor stays in its block, so blocks keep their order.
C17_StridedTranspose ==
    (pc = "encode") =>
        /\ (arg.intl_factor = 1) => (w_info_intl = w_info)
        /\ \A q \in 0..(Len(w_info) \div BlockLen) :
              ((q + 1) * BlockLen <= Len(w_info)) =>
                  \A k \in 0..(arg.intl_factor - 1), m \in 0..(arg.n_groups - 1) :
                      w_info_intl[q * BlockLen + k * arg.n_groups + m + 1]
                          = w_info[q * BlockLen + m * arg.intl_factor + k + 1]
        /\ \A x \in 1..Len(w_info_intl) :
              w_info_intl[x] \div BlockLen = (x - 1) \div BlockLen

\* C17 witness: two full blocks of a 2 x 2 interleave followed by a partial
\* block, the second output position holding raster descriptor 2
C17_Witness ==
    /\ pc = "encode"
    /\ arg.intl_factor = 2
    /\ arg.n_groups = 2
    /\ Len(w_info) = 9
    /\ w_info_intl[2] = 2
    /\ w_info_intl[6] = 6

\* ------------------------------------------------------------------------
\* the row-advance and plane-advance flags of lane l (0-based) of a
\* descriptor: the flag of lane 0 is shifted to the top bit
Step1Flag(w, l) == QBit(w.step_1_pos, (group_size - 1) - l)

Step2Flag(w, l) == QBit(w.step_2_pos, (group_size - 1) - l)

\* the offsets computed directly from a cursor
DirectInput(c) ==
    (c.col - arg.pad_W) * arg.d_stride_W + (c.row - arg.pad_H) * arg.d_stride_H
        + c.batch * arg.d_stride_N

DirectOutput(c) ==
    c.col * arg.o_stride_W + c.row * arg.o_stride_H + c.batch * arg.o_stride_N

\* the offset reached l lane steps after the stored offset of descriptor d
InputAfter(d, l) ==
    LET acc[x \in 0..group_size] ==
            IF x = 0 THEN w_info[d].d_load_offset_addr
            ELSE acc[x - 1] + d_tile_step_W * arg.d_stride_W
                 + Step1Flag(w_info[d], x - 1)
                     * Step1Pitch(d_tile_step_H, d_tile_step_W, arg.d_stride_H,
                                  arg.d_stride_W, TilesW)
                 + Step2Flag(w_info[d], x - 1)
                     * Step2Pitch(d_tile_step_H, arg.d_stride_N, arg.d_stride_H, TilesH)
    IN  acc[l]

OutputAfter(d, l) ==
    LET acc[x \in 0..group_size] ==
            IF x = 0 THEN w_info[d].o_store_offset_addr
            ELSE acc[x - 1] + o_tile_step_W * arg.o_stride_W
                 + Step1Flag(w_info[d], x - 1)
                     * Step1Pitch(o_tile_step_H, o_tile_step_W, arg.o_stride_H,
                                  arg.o_stride_W, TilesW)
                 + Step2Flag(w_info[d], x - 1)
                     * Step2Pitch(o_tile_step_H, arg.o_stride_N, arg.o_stride_H, TilesH)
    IN  acc[l]

\* C19: starting from a descriptor's stored input (output) offset and adding
\* per lane tile_step_W * W_pitch, plus step_1_pitch when the lane's
\* row-advance flag is set, plus step_2_pitch when its plane-advance flag is
\* set, gives for every following lane the offset computed directly from that
\* lane's cursor, and after 64 lanes the stored offset of the next descriptor
\* (the offset of the cursor the walk stopped at, for the last one).
C19_FlagsReproduceOffsets ==
    (pc = "interleave") =>
        \A d \in 1..Len(w_info) :
            /\ \A l \in 0..(group_size - 1) :
                  /\ InputAfter(d, l) = DirectInput(lane_cursor[d][l + 1])
                  /\ OutputAfter(d, l) = DirectOutput(lane_cursor[d][l + 1])
            /\ (d < Len(w_info)) =>
                  /\ InputAfter(d, group_size) = w_info[d + 1].d_load_offset_addr
                  /\ OutputAfter(d, group_size) = w_info[d + 1].o_store_offset_addr
            /\ (d = Len(w_info)) =>
                  /\ InputAfter(d, group_size)
                        = DirectInput([col |-> o_cur_w, row |-> o_cur_h, batch |-> cur_n])
                  /\ OutputAfter(d, group_size)
                        = DirectOutput([col |-> o_cur_w, row |-> o_cur_h, batch |-> cur_n])

\* C19 witness: two descriptors, the first with a lane that ends a row only
\* and a lane that ends the first of two batches
C19_Witness ==
    /\ pc = "interleave"
    /\ Len(w_info) = 2
    /\ arg.N = 2
    /\ TilesW > 1
    /\ TilesH > 1
    /\ \E l \in 0..(group_size - 2) :
          Step1Flag(w_info[1], l) = 1 /\ Step2Flag(w_info[1], l) = 0
    /\ \E l \in 0..(group_size - 2) :
          /\ Step2Flag(w_info[1], l) = 1
          /\ lane_cursor[1][l + 2].batch = 1

\* ------------------------------------------------------------------------
\* the interleave loop is about to run its body on the caller's configuration
InterleaveIterates ==
    /\ solution.built
    /\ ~solution.from_env
    /\ pc = "interleave"
    /\ intl_i < Len(w_info)

\* C20: every performance configuration accepted by IsValid(context) has
\* interleave_factor * group_count of at least 1, so that each iteration of
\* the interleave loop over a non-empty descriptor sequence moves the block
\* index forward.
C20_ValidConfigTerminates ==
    (InterleaveIterates /\ IsValid(conv_ctx.max_cu, config.n_groups)) =>
        /\ config.intl_factor * config.n_groups >= 1
        /\ intl_i + arg.intl_factor * arg.n_groups > intl_i

\* ------------------------------------------------------------------------
BnBothCalled == bn_called = {"IsApplicable", "GetSolution"}

\* the problems of the current one's direction, mode, channels and types,
\* with every tensor length tried
SameKindProblems ==
    { [bn_problem EXCEPT !.n = bn, !.h = hw[1], !.w = hw[2]] :
        bn \in BnBatches, hw \in BnShapes }

BranchesOfApplicable ==
    { TableBranch(p) : p \in { q \in SameKindProblems : BnIsApplicable(bn_ctx, q) } }

\* C21 as stated: for each of the four branches of the table, the variant-2
\* branch included, there is a problem accepted by IsApplicable for which
\* GetSolution takes that branch.
C21_AllBranchesCovered ==
    (BnBothCalled /\ IsBackwardSpatial) => BranchesOfApplicable = 1..4

\* C21 amended: the problems accepted by IsApplicable cover the first three
\* branches of the table and never the fourth: GetSolution takes the
\* variant-2 branch (the only one that sets the y dimension) exactly on
\* backward spatial problems that IsApplicable refuses, and no accepted
\* problem gets variant 2.
C21_ThreeBranchesCovered ==
    BnBothCalled =>
        /\ (TableBranch(bn_problem) = 4) <=> (bn_solution.ylocalsize = 1024)
        /\ (bn_solution.variant = 2) <=> (TableBranch(bn_problem) = 4)
        /\ bn_applicable => (TableBranch(bn_problem) \in 1..3 /\ bn_solution.variant # 2)
        /\ IsBackwardSpatial =>
              /\ bn_applicable <=> (TableBranch(bn_problem) # 4)
              /\ BranchesOfApplicable = 1..3

\* C21 witness: GetSolution has taken the variant-2 branch on a backward
\* spatial problem with H x W > 512 and N x H x W >= 32Mi, which IsApplicable
\* has refused
C21_Witness ==
    /\ BnBothCalled
    /\ IsBackwardSpatial
    /\ HW > 512
    /\ ~NHWBelow(32 * 1024 * 1024)
    /\ ~bn_applicable
    /\ bn_solution.variant = 2
    /\ bn_solution.ygridsize = 1024 * CeilDiv(HW, 1024)

====
